---- MODULE Spec2Model ----
(***************************************************************************)
(* A model of gnn/data/dataset.py: the Tokenizer classes and GraphDataset. *)
(*                                                                         *)
(* Strings that the code splits or rewrites character by character (the    *)
(* text handed to a tokenizer, a token identifier) are sequences of one-   *)
(* character strings.  Node ids, label ids and the weight field of an edge *)
(* list are only ever compared or looked up, and are plain strings.        *)
(***************************************************************************)
EXTENDS Integers, Sequences, FiniteSets, TLC

(***************************************************************************)
(* Bounds of the model.                                                    *)
(***************************************************************************)
\* most token identifiers a Tokenizer driven directly may register
MaxTokens == 3
\* most lines the three input files of one GraphDataset hold together
MaxLines == 4

(***************************************************************************)
(* Inputs.                                                                 *)
(***************************************************************************)
\* texts handed to a Tokenizer driven directly: "", "a", "a a", "a B",
\* "B,a", " b  a ", "B b"
Texts ==
    { <<>>,
      <<"a">>,
      <<"a", " ", "a">>,
      <<"a", " ", "B">>,
      <<"B", ",", "a">>,
      <<" ", "b", " ", " ", "a", " ">>,
      <<"B", " ", "b">> }

\* identifiers handed to get_or_create_token_index / get_token_index:
\* "a", "b", "B", "B,a"
TokenIds == { <<"a">>, <<"b">>, <<"B">>, <<"B", ",", "a">> }

\* node ids and label ids of the input files; docs.txt knows only DocIds,
\* so that "n3" is a node without features wherever it is named
NodeIds == {"n1", "n2", "n3"}
DocIds == {"n1", "n2"}
LabelIds == {"L0", "L1"}

\* a docs.txt line is node_id, then (sep) a run of whitespace and the rest
\* of the line; without sep the line is the bare node_id with nothing after
\* it, not even a line break (only the last line of a file can be that).
\* Lines here do not start with whitespace.  The sentences: "", "a B,a a"
Sentences ==
    { <<>>,
      <<"a", " ", "B", ",", "a", " ", "a">> }

DocLines ==
    {[node_id |-> n, sep |-> TRUE, sentence |-> t] : n \in DocIds, t \in Sentences}
    \cup {[node_id |-> n, sep |-> FALSE, sentence |-> <<>>] : n \in DocIds}

\* the other files' lines are given by their whitespace-separated fields
LabelLines ==
    {<<n>> : n \in NodeIds}
    \cup {<<n, l>> : n \in NodeIds, l \in LabelIds}
    \cup {<<n, "L0", "L1">> : n \in NodeIds}

AdjLines ==
    {<<>>}
    \cup {<<a>> : a \in NodeIds}
    \cup {<<a, b>> : a \in NodeIds, b \in NodeIds}
    \cup {<<a, b, c>> : a \in NodeIds, b \in NodeIds, c \in NodeIds}

\* third fields of edgelist.txt lines; "x" is not a number
WeightFields == {"0.5", "2", "x"}

EdgeLines ==
    {<<>>}
    \cup {<<a>> : a \in NodeIds}
    \cup {<<a, b>> : a \in NodeIds, b \in NodeIds}
    \cup {<<a, b, w>> : a \in NodeIds, b \in NodeIds, w \in WeightFields}
    \cup {<<a, b, "0.5", "#">> : a \in NodeIds, b \in NodeIds}

(***************************************************************************)
(* Python's str primitives, as far as the tokenizers use them.             *)
(***************************************************************************)
IsSpace(c) == c = " "

IsAlpha(c) == c \in {"a", "b", "c", "A", "B", "C"}

\* str.lower(), one character
Lower(c) ==
    CASE c = "A" -> "a"
      [] c = "B" -> "b"
      [] c = "C" -> "c"
      [] OTHER -> c

\* str.split() with no argument: the maximal runs of non-whitespace
RECURSIVE SplitFrom(_, _, _)
SplitFrom(s, cur, acc) ==
    IF s = <<>>
    THEN IF cur = <<>> THEN acc ELSE Append(acc, cur)
    ELSE IF IsSpace(Head(s))
         THEN SplitFrom(Tail(s), <<>>, IF cur = <<>> THEN acc ELSE Append(acc, cur))
         ELSE SplitFrom(Tail(s), Append(cur, Head(s)), acc)

split(s) == SplitFrom(s, <<>>, <<>>)

\* WhiteSpaceTokenizer.tokenize
WhiteSpaceTokenize(s) == split(s)

\* EnglishWordTokenizer.tokenize: lower(), punc_re.sub(" ", .), split()
EnglishWordTokenize(s) ==
    LET lowered == [i \in 1..Len(s) |-> Lower(s[i])]
        subbed  == [i \in 1..Len(s) |-> IF IsAlpha(lowered[i]) THEN lowered[i] ELSE " "]
    IN  split(subbed)

tokenize(kind, s) ==
    IF kind = "EnglishWordTokenizer" THEN EnglishWordTokenize(s) ELSE WhiteSpaceTokenize(s)

(***************************************************************************)
(* Tokenizer: the two dictionaries, and its methods as functions from the  *)
(* dictionaries to a result and the dictionaries afterwards.               *)
(***************************************************************************)
EmptyDict == [x \in {} |-> 0]

\* Tokenizer.num_tokens
num_tokens(id_index) == Cardinality(DOMAIN id_index)

\* a method's outcome: the exception it raised ("none": it returned), the
\* value it returned, and the two dictionaries afterwards
Returned(v, id_index, index_id) ==
    [raised |-> "none", ret |-> v, id_index |-> id_index, index_id |-> index_id]

Raised(e, id_index, index_id) ==
    [raised |-> e, ret |-> <<>>, id_index |-> id_index, index_id |-> index_id]

\* get_or_create_token_index without line 24: the reverse entry is not recorded
get_or_create_token_index_forward_only(id_index, index_id, token_id) ==
    IF token_id \in DOMAIN id_index
    THEN Returned(id_index[token_id], id_index, index_id)
    ELSE Returned(num_tokens(id_index),
                  (token_id :> num_tokens(id_index)) @@ id_index,
                  index_id)

\* Tokenizer.get_or_create_token_index
get_or_create_token_index(id_index, index_id, token_id) ==
    IF token_id \in DOMAIN id_index
    THEN Returned(id_index[token_id], id_index, index_id)
    ELSE LET token_index == num_tokens(id_index)
         IN  Returned(token_index,
                      (token_id :> token_index) @@ id_index,
                      (token_index :> token_id) @@ index_id)

\* Tokenizer.get_token_index: a dictionary read, KeyError when absent
get_token_index(id_index, index_id, token_id) ==
    IF token_id \in DOMAIN id_index
    THEN Returned(id_index[token_id], id_index, index_id)
    ELSE Raised("KeyError", id_index, index_id)

\* the list comprehension of tokenize_to_indices with create_token_index=True
RECURSIVE CreateAll(_, _, _, _)
CreateAll(id_index, index_id, token_ids, acc) ==
    IF token_ids = <<>>
    THEN Returned(acc, id_index, index_id)
    ELSE LET r == get_or_create_token_index(id_index, index_id, Head(token_ids))
         IN  CreateAll(r.id_index, r.index_id, Tail(token_ids), Append(acc, r.ret))

\* the list comprehension of tokenize_to_indices with create_token_index=False:
\* the first absent identifier raises and the list is never built
RECURSIVE LookupAll(_, _, _, _)
LookupAll(id_index, index_id, token_ids, acc) ==
    IF token_ids = <<>>
    THEN Returned(acc, id_index, index_id)
    ELSE LET r == get_token_index(id_index, index_id, Head(token_ids))
         IN  IF r.raised /= "none"
             THEN r
             ELSE LookupAll(r.id_index, r.index_id, Tail(token_ids), Append(acc, r.ret))

\* tokenize_to_indices taking the creating branch whatever the flag
tokenize_to_indices_always_create(kind, id_index, index_id, s, create_token_index) ==
    CreateAll(id_index, index_id, tokenize(kind, s), <<>>)

\* Tokenizer.tokenize_to_indices
tokenize_to_indices(kind, id_index, index_id, s, create_token_index) ==
    LET token_ids == tokenize(kind, s)
    IN  IF create_token_index
        THEN CreateAll(id_index, index_id, token_ids, <<>>)
        ELSE LookupAll(id_index, index_id, token_ids, <<>>)

(***************************************************************************)
(* The graph container GraphDataset extends (gnn.data.meta_network), as    *)
(* far as dataset.py uses it.  A node table is a function from the node    *)
(* ids of one type to their indices; an attribute is a function from node  *)
(* indices to values; the edges are the list of add_edges calls.           *)
(***************************************************************************)
has_node_id(table, node_id) == node_id \in DOMAIN table

num_nodes(table) == Cardinality(DOMAIN table)

get_or_create_node_index(table, node_id) ==
    IF node_id \in DOMAIN table
    THEN [raised |-> "none", ret |-> table[node_id], table |-> table]
    ELSE [raised |-> "none", ret |-> num_nodes(table),
          table |-> (node_id :> num_nodes(table)) @@ table]

get_node_index(table, node_id) ==
    IF node_id \in DOMAIN table
    THEN [raised |-> "none", ret |-> table[node_id], table |-> table]
    ELSE [raised |-> "KeyError", ret |-> 0, table |-> table]

set_node_attr(attr, node_index, value) == (node_index :> value) @@ attr

has_node_attr(attr, node_index) == node_index \in DOMAIN attr

add_edges(edges, node_index0, node_index1, weight) ==
    Append(edges, <<node_index0, node_index1, weight>>)

(***************************************************************************)
(* GraphDataset: reading the files.  A dataset value ds holds the token    *)
(* dictionaries, the NODE and LABEL tables, the two attributes, the edges, *)
(* and the local variable weight of _read_edgelist.  Reading a line gives  *)
(* the exception it raised ("none": the loop goes on) and the dataset      *)
(* after it.  Weights are counted in tenths.                               *)
(***************************************************************************)
\* the weight 1.0 of an adjedges.txt edge
UnitWeight == 10

Unbound == [bound |-> FALSE, v |-> 0]

Bound(v) == [bound |-> TRUE, v |-> v]

\* float() of a third field
float(field) ==
    CASE field = "0.5" -> [raised |-> "none", ret |-> 5]
      [] field = "2"   -> [raised |-> "none", ret |-> 20]
      [] OTHER         -> [raised |-> "ValueError", ret |-> 0]

Done(ds) == [raised |-> "none", ds |-> ds]

Abort(e, ds) == [raised |-> e, ds |-> ds]

\* __init__ storing its argument
stored_argument(ignore_featureless_node_arg) == ignore_featureless_node_arg

\* GraphDataset.__init__: the value stored in self.ignore_featureless_node
stored_ignore_featureless_node(ignore_featureless_node_arg) == TRUE

\* re.split(r"\s+", line, 1) of a docs.txt line
re_split(line) ==
    IF line.sep THEN <<line.node_id, line.sentence>> ELSE <<line.node_id>>

\* one turn of the loop of _read_docs
read_docs_line(kind, ds, line) ==
    LET parts == re_split(line)
    IN  IF Len(parts) /= 2
        THEN Abort("ValueError", ds)
        ELSE LET n == get_or_create_node_index(ds.nodes, parts[1])
                 t == tokenize_to_indices(kind, ds.id_index, ds.index_id, parts[2], TRUE)
             IN  Done([ds EXCEPT !.nodes = n.table,
                                 !.id_index = t.id_index,
                                 !.index_id = t.index_id,
                                 !.features = set_node_attr(@, n.ret, t.ret)])

\* one turn of the loop of _read_labels
read_labels_line(ignore, ds, fields) ==
    IF Len(fields) /= 2
    THEN Abort("ValueError", ds)
    ELSE LET n == IF ignore
                  THEN get_node_index(ds.nodes, fields[1])
                  ELSE get_or_create_node_index(ds.nodes, fields[1])
         IN  IF n.raised /= "none"
             THEN Abort(n.raised, ds)
             ELSE LET l == get_or_create_node_index(ds.classes, fields[2])
                  IN  Done([ds EXCEPT !.nodes = n.table,
                                      !.classes = l.table,
                                      !.label = set_node_attr(@, n.ret, l.ret)])

\* the test before add_edges left out
distinct_endpoints_untested(node_index0, node_index1) == TRUE

\* the test  node_index0 != node_index1  before add_edges
distinct_endpoints(node_index0, node_index1) == node_index0 /= node_index1

\* the inner loop of _read_adjedges with break in place of continue: the
\* first neighbour the filter rejects ends the line
RECURSIVE adj_neighbours_break(_, _, _, _)
adj_neighbours_break(ignore, ds, node_index0, rest) ==
    IF rest = <<>>
    THEN ds
    ELSE IF ignore /\ ~has_node_id(ds.nodes, Head(rest))
         THEN ds
         ELSE LET n1 == get_or_create_node_index(ds.nodes, Head(rest))
                  ds1 == [ds EXCEPT !.nodes = n1.table,
                                    !.edges = IF node_index0 /= n1.ret
                                              THEN add_edges(@, node_index0, n1.ret, UnitWeight)
                                              ELSE @]
              IN  adj_neighbours_break(ignore, ds1, node_index0, Tail(rest))

\* the inner loop of _read_adjedges over node_ids[1:]
RECURSIVE adj_neighbours(_, _, _, _)
adj_neighbours(ignore, ds, node_index0, rest) ==
    IF rest = <<>>
    THEN ds
    ELSE IF ignore /\ ~has_node_id(ds.nodes, Head(rest))
         THEN adj_neighbours(ignore, ds, node_index0, Tail(rest))
         ELSE LET n1 == get_or_create_node_index(ds.nodes, Head(rest))
                  ds1 == [ds EXCEPT !.nodes = n1.table,
                                    !.edges = IF distinct_endpoints(node_index0, n1.ret)
                                              THEN add_edges(@, node_index0, n1.ret, UnitWeight)
                                              ELSE @]
              IN  adj_neighbours(ignore, ds1, node_index0, Tail(rest))

\* one turn of the outer loop of _read_adjedges
read_adjedges_line(ignore, ds, node_ids) ==
    IF Len(node_ids) = 0
    THEN Abort("IndexError", ds)
    ELSE IF ignore /\ ~has_node_id(ds.nodes, node_ids[1])
         THEN Done(ds)
         ELSE LET n0 == get_or_create_node_index(ds.nodes, node_ids[1])
              IN  Done(adj_neighbours(ignore, [ds EXCEPT !.nodes = n0.table],
                                      n0.ret, Tail(node_ids)))

\* the assignment to weight with a default of 1.0 for a line without a
\* third field
parse_weight_default(weight, items) ==
    IF Len(items) = 3
    THEN LET f == float(items[3])
         IN  [raised |-> f.raised, weight |-> IF f.raised = "none" THEN Bound(f.ret) ELSE weight]
    ELSE [raised |-> "none", weight |-> Bound(UnitWeight)]

\* the assignment to weight in _read_edgelist: made only for a line of three
\* fields, before the filter looks at the node ids
parse_weight(weight, items) ==
    IF Len(items) = 3
    THEN LET f == float(items[3])
         IN  [raised |-> f.raised, weight |-> IF f.raised = "none" THEN Bound(f.ret) ELSE weight]
    ELSE [raised |-> "none", weight |-> weight]

\* one turn of the loop of _read_edgelist
read_edgelist_line(ignore, ds, items) ==
    IF Len(items) < 2
    THEN Abort("IndexError", ds)
    ELSE
    LET w == parse_weight(ds.weight, items)
        ds1 == [ds EXCEPT !.weight = w.weight]
    IN  IF w.raised /= "none"
        THEN Abort(w.raised, ds)
        ELSE IF ignore /\ ~has_node_id(ds1.nodes, items[1])
        THEN Done(ds1)
        ELSE
        LET n0 == get_or_create_node_index(ds1.nodes, items[1])
            ds2 == [ds1 EXCEPT !.nodes = n0.table]
        IN  IF ignore /\ ~has_node_id(ds2.nodes, items[2])
            THEN Done(ds2)
            ELSE
            LET n1 == get_or_create_node_index(ds2.nodes, items[2])
                ds3 == [ds2 EXCEPT !.nodes = n1.table]
            IN  IF distinct_endpoints(n0.ret, n1.ret)
                THEN IF ds3.weight.bound
                     THEN Done([ds3 EXCEPT !.edges = add_edges(@, n0.ret, n1.ret, ds3.weight.v)])
                     ELSE Abort("UnboundLocalError", ds3)
                ELSE Done(ds3)

(***************************************************************************)
(* GraphDataset: the derived accessors.  A matrix is its shape and its     *)
(* cells, a function on <<row, column>>.                                   *)
(***************************************************************************)
Cells(shape) == (0..(shape[1] - 1)) \X (0..(shape[2] - 1))

NoMatrix == [shape |-> <<0, 0>>, cells |-> [rc \in {} |-> 0]]

\* the (row, col, data) entries feature_matrix appends, node by node and,
\* within a node, token by token
RECURSIVE coo_entries(_, _, _)
coo_entries(features, node_index, n) ==
    IF node_index >= n
    THEN <<>>
    ELSE [k \in 1..Len(features[node_index]) |-> <<node_index, features[node_index][k], 1>>]
         \o coo_entries(features, node_index + 1, n)

\* a cell that is set, not added to: 1 however often (row, col) occurs
csr_cell_set(entries, r, c) ==
    IF \E k \in 1..Len(entries) : entries[k][1] = r /\ entries[k][2] = c THEN 1 ELSE 0

\* what one cell of csr_matrix((data, (row, col))) holds: entries at the same
\* coordinates are added up
RECURSIVE csr_cell(_, _, _)
csr_cell(entries, r, c) ==
    IF entries = <<>>
    THEN 0
    ELSE (IF Head(entries)[1] = r /\ Head(entries)[2] = c THEN Head(entries)[3] ELSE 0)
         + csr_cell(Tail(entries), r, c)

csr_matrix(entries, shape) ==
    [shape |-> shape, cells |-> [rc \in Cells(shape) |-> csr_cell(entries, rc[1], rc[2])]]

\* GraphDataset.feature_matrix
feature_matrix(ds, bag_of_words, sparse) ==
    IF bag_of_words
    THEN LET n == num_nodes(ds.nodes)
             feature_dim == num_tokens(ds.id_index)
         IN  IF \E node_index \in 0..(n - 1) : ~has_node_attr(ds.features, node_index)
             THEN [raised |-> "KeyError", matrix |-> NoMatrix, dense |-> FALSE]
             ELSE [raised |-> "none",
                   matrix |-> csr_matrix(coo_entries(ds.features, 0, n), <<n, feature_dim>>),
                   dense  |-> ~sparse]
    ELSE [raised |-> "NotImplementedError", matrix |-> NoMatrix, dense |-> FALSE]

\* GraphDataset.num_classes
num_classes(ds) == num_nodes(ds.classes)

\* the assignment with the two index arrays swapped
one_hot_matrix_swapped(n, label_indices, shape) ==
    [shape |-> shape,
     cells |-> [rc \in Cells(shape) |->
                   IF \E k \in 1..n : rc = <<label_indices[k], k - 1>> THEN 1 ELSE 0]]

\* label_matrix = zeros(shape); label_matrix[arange(num_nodes), label_indices] = 1
one_hot_matrix(n, label_indices, shape) ==
    [shape |-> shape,
     cells |-> [rc \in Cells(shape) |->
                   IF \E k \in 1..n : rc = <<k - 1, label_indices[k]>> THEN 1 ELSE 0]]

\* GraphDataset.label_list_or_matrix
label_list_or_matrix(ds, one_hot) ==
    LET n == num_nodes(ds.nodes)
    IN  IF \E node_index \in 0..(n - 1) : ~has_node_attr(ds.label, node_index)
        THEN [raised |-> "KeyError", matrix |-> NoMatrix, list |-> <<>>]
        ELSE LET label_indices == [k \in 1..n |-> ds.label[k - 1]]
             IN  IF one_hot
                 THEN [raised |-> "none",
                       matrix |-> one_hot_matrix(n, label_indices, <<n, num_classes(ds)>>),
                       list   |-> <<>>]
                 ELSE [raised |-> "none", matrix |-> NoMatrix, list |-> label_indices]

(***************************************************************************)
(* State.                                                                  *)
(***************************************************************************)
VARIABLES
    tokenizer,            \* the class of the Tokenizer in use
    token_id_index_dict,  \* Tokenizer.token_id_index_dict
    token_index_id_dict,  \* Tokenizer.token_index_id_dict
    call,                 \* the last Tokenizer method called from outside: its
                          \* name, arguments, result, and the dictionaries before it
    data_format,          \* GraphDataset.data_format
    ignore_featureless_node_arg,  \* the constructor's argument
    ignore_featureless_node,      \* GraphDataset.ignore_featureless_node
    nodes,                \* the container's table of NODE ids
    classes,              \* the container's table of LABEL ids
    features,             \* the attribute "features" of the NODE indices
    label,                \* the attribute "label" of the NODE indices
    edges,                \* the add_edges calls made, in order
    weight,               \* the local variable weight of _read_edgelist
    pc,                   \* where __init__ is: the file being read, "ready"
                          \* once it returned, "error" once it raised
    raised,               \* the exception that ended __init__
    nread,                \* lines read so far, over the three files
    ret,                  \* what the last accessor call gave
    last,                 \* history: the shape of the last line read (its file,
                          \* its number of fields, whether its first id was a
                          \* NODE, how many of its other ids were not, whether
                          \* it names its first id again, its third field) and
                          \* the node and edge counts before it
    docs_read,            \* history: the node ids of the docs.txt lines read
    labels_read,          \* history: the labels.txt lines read
    third_read            \* history: the third field of the last
                          \* three-field edgelist.txt line read

tokVars == <<tokenizer, token_id_index_dict, token_index_id_dict>>

graphVars == <<nodes, classes, features, label, edges>>

dsVars == <<data_format, ignore_featureless_node_arg, ignore_featureless_node,
            nodes, classes, features, label, edges, weight, pc, raised, nread,
            ret, last, docs_read, labels_read, third_read>>

vars == <<tokenizer, token_id_index_dict, token_index_id_dict, call,
          data_format, ignore_featureless_node_arg, ignore_featureless_node,
          nodes, classes, features, label, edges, weight, pc, raised, nread,
          ret, last, docs_read, labels_read, third_read>>

NoCall == [op |-> "none"]

NoLine == [file |-> "none", nfields |-> 0, known0 |-> FALSE, unknown |-> 0,
           self |-> FALSE, third |-> "", pre_nodes |-> 0, pre_edges |-> 0]

\* the dataset value of the current state
DS ==
    [id_index |-> token_id_index_dict, index_id |-> token_index_id_dict,
     nodes |-> nodes, classes |-> classes, features |-> features, label |-> label,
     edges |-> edges, weight |-> weight]

NoDataset ==
    /\ data_format = "adjedges"
    /\ ignore_featureless_node_arg = TRUE
    /\ ignore_featureless_node = TRUE
    /\ nodes = EmptyDict
    /\ classes = EmptyDict
    /\ features = EmptyDict
    /\ label = EmptyDict
    /\ edges = <<>>
    /\ weight = Unbound
    /\ raised = "none"
    /\ nread = 0
    /\ ret = NoCall
    /\ last = NoLine
    /\ docs_read = <<>>
    /\ labels_read = <<>>
    /\ third_read = ""

(***************************************************************************)
(* A Tokenizer driven directly by a caller.                                *)
(***************************************************************************)
TokInit ==
    /\ tokenizer \in {"WhiteSpaceTokenizer", "EnglishWordTokenizer"}
    /\ token_id_index_dict = EmptyDict
    /\ token_index_id_dict = EmptyDict
    /\ call = NoCall
    /\ pc = "caller"
    /\ NoDataset

\* what a call leaves behind
Called(op, arg, create, r) ==
    /\ num_tokens(r.id_index) <= MaxTokens
    /\ token_id_index_dict' = r.id_index
    /\ token_index_id_dict' = r.index_id
    /\ call' = [op |-> op, arg |-> arg, create |-> create,
                raised |-> r.raised, ret |-> r.ret,
                pre_id_index |-> token_id_index_dict,
                pre_index_id |-> token_index_id_dict]
    /\ UNCHANGED tokenizer
    /\ UNCHANGED dsVars

CallGetOrCreateTokenIndex ==
    \E token_id \in TokenIds :
        Called("get_or_create_token_index", token_id, TRUE,
               get_or_create_token_index(token_id_index_dict, token_index_id_dict, token_id))

CallGetTokenIndex ==
    \E token_id \in TokenIds :
        Called("get_token_index", token_id, FALSE,
               get_token_index(token_id_index_dict, token_index_id_dict, token_id))

CallTokenizeToIndices ==
    \E s \in Texts, create_token_index \in BOOLEAN :
        Called("tokenize_to_indices", s, create_token_index,
               tokenize_to_indices(tokenizer, token_id_index_dict, token_index_id_dict,
                                   s, create_token_index))

TokNext ==
    \/ CallGetOrCreateTokenIndex
    \/ CallGetTokenIndex
    \/ CallTokenizeToIndices

SpecTokenizer == TokInit /\ [][TokNext]_vars

(***************************************************************************)
(* The construction of a GraphDataset, then calls of its accessors.  Each  *)
(* file's next line is whatever the file holds: any line of its kind.      *)
(***************************************************************************)
\* the constructor is called with tokenizer=None: the default tokenizer
Init ==
    /\ tokenizer = "EnglishWordTokenizer"
    /\ token_id_index_dict = EmptyDict
    /\ token_index_id_dict = EmptyDict
    /\ call = NoCall
    /\ data_format \in {"adjedges", "edgelist"}
    /\ ignore_featureless_node_arg \in BOOLEAN
    /\ ignore_featureless_node = stored_ignore_featureless_node(ignore_featureless_node_arg)
    /\ nodes = EmptyDict
    /\ classes = EmptyDict
    /\ features = EmptyDict
    /\ label = EmptyDict
    /\ edges = <<>>
    /\ weight = Unbound
    /\ pc = "docs"
    /\ raised = "none"
    /\ nread = 0
    /\ ret = NoCall
    /\ last = NoLine
    /\ docs_read = <<>>
    /\ labels_read = <<>>
    /\ third_read = ""

\* a line was read: the dataset after it, and the loop goes on or __init__ ends
Read(r) ==
    /\ token_id_index_dict' = r.ds.id_index
    /\ token_index_id_dict' = r.ds.index_id
    /\ nodes' = r.ds.nodes
    /\ classes' = r.ds.classes
    /\ features' = r.ds.features
    /\ label' = r.ds.label
    /\ edges' = r.ds.edges
    /\ weight' = r.ds.weight
    /\ raised' = r.raised
    /\ pc' = IF r.raised = "none" THEN pc ELSE "error"
    /\ nread' = nread + 1
    /\ UNCHANGED <<tokenizer, call, data_format, ignore_featureless_node_arg,
                   ignore_featureless_node, ret>>

\* the first n fields of a line, or all of them when it has fewer
FirstFields(fields, n) ==
    [k \in 1..(IF Len(fields) < n THEN Len(fields) ELSE n) |-> fields[k]]

Shape(file, nfields, ids, third) ==
    [file |-> file, nfields |-> nfields,
     known0 |-> Len(ids) > 0 /\ has_node_id(nodes, ids[1]),
     unknown |-> Cardinality({k \in 2..Len(ids) : ~has_node_id(nodes, ids[k])}),
     self |-> \E k \in 2..Len(ids) : ids[k] = ids[1],
     third |-> third,
     pre_nodes |-> num_nodes(nodes), pre_edges |-> Len(edges)]

ReadDocsLine(line) ==
    /\ pc = "docs"
    /\ nread < MaxLines
    /\ LET r == read_docs_line(tokenizer, DS, line)
       IN  /\ Read(r)
           /\ docs_read' = IF r.raised = "none" THEN Append(docs_read, line.node_id)
                           ELSE docs_read
    \* a docs.txt line has two fields, the node id and the rest of the line,
    \* when whitespace follows the node id, and one when nothing does
    /\ last' = Shape("docs", IF line.sep THEN 2 ELSE 1, <<line.node_id>>, "")
    /\ UNCHANGED <<labels_read, third_read>>

ReadLabelsLine(fields) ==
    /\ pc = "labels"
    /\ nread < MaxLines
    /\ LET r == read_labels_line(ignore_featureless_node, DS, fields)
       IN  /\ Read(r)
           /\ labels_read' = IF r.raised = "none" THEN Append(labels_read, fields)
                             ELSE labels_read
    /\ last' = Shape("labels", Len(fields), FirstFields(fields, 1), "")
    /\ UNCHANGED <<docs_read, third_read>>

ReadAdjedgesLine(node_ids) ==
    /\ pc = "structure"
    /\ data_format = "adjedges"
    /\ nread < MaxLines
    /\ Read(read_adjedges_line(ignore_featureless_node, DS, node_ids))
    /\ last' = Shape("adjedges", Len(node_ids), node_ids, "")
    /\ UNCHANGED <<docs_read, labels_read, third_read>>

ReadEdgelistLine(items) ==
    /\ pc = "structure"
    /\ data_format /= "adjedges"
    /\ nread < MaxLines
    /\ Read(read_edgelist_line(ignore_featureless_node, DS, items))
    /\ last' = Shape("edgelist", Len(items), FirstFields(items, 2),
                     IF Len(items) >= 3 THEN items[3] ELSE "")
    /\ third_read' = IF Len(items) = 3 THEN items[3] ELSE third_read
    /\ UNCHANGED <<docs_read, labels_read>>

\* the end of a file: the next step of __init__
EndOfFile ==
    /\ pc \in {"docs", "labels", "structure"}
    /\ pc' = CASE pc = "docs" -> "labels"
               [] pc = "labels" -> "structure"
               [] pc = "structure" -> "ready"
    /\ last' = NoLine
    \* the local variables of _read_edgelist end with it
    /\ weight' = Unbound
    /\ third_read' = ""
    /\ UNCHANGED <<tokVars, call, data_format, ignore_featureless_node_arg,
                   ignore_featureless_node, graphVars, raised, nread, ret,
                   docs_read, labels_read>>

ReadDocs == \E line \in DocLines : ReadDocsLine(line)

ReadLabels == \E fields \in LabelLines : ReadLabelsLine(fields)

ReadAdjedges == \E node_ids \in AdjLines : ReadAdjedgesLine(node_ids)

ReadEdgelist == \E items \in EdgeLines : ReadEdgelistLine(items)

Accessed(r) ==
    /\ pc = "ready"
    /\ ret' = r
    /\ UNCHANGED <<tokVars, call, data_format, ignore_featureless_node_arg,
                   ignore_featureless_node, graphVars, weight, pc, raised, nread,
                   last, docs_read, labels_read, third_read>>

CallFeatureMatrix ==
    \E bag_of_words \in BOOLEAN, sparse \in BOOLEAN :
        Accessed([op |-> "feature_matrix", bag_of_words |-> bag_of_words,
                  out |-> feature_matrix(DS, bag_of_words, sparse)])

CallLabelListOrMatrix ==
    \E one_hot \in BOOLEAN :
        Accessed([op |-> "label_list_or_matrix", one_hot |-> one_hot,
                  out |-> label_list_or_matrix(DS, one_hot)])

Next ==
    \/ ReadDocs
    \/ ReadLabels
    \/ ReadAdjedges
    \/ ReadEdgelist
    \/ EndOfFile
    \/ CallFeatureMatrix
    \/ CallLabelListOrMatrix

Spec == Init /\ [][Next]_vars

(***************************************************************************)
(* Properties of the Tokenizer (under SpecTokenizer).                      *)
(***************************************************************************)
Range(f) == {f[x] : x \in DOMAIN f}

\* C1: the identifier->index map is injective, its values are exactly
\* 0..num_tokens()-1, the index->identifier map is its inverse, and
\* get_or_create_token_index gives a new identifier the value num_tokens()
\* had before the call, a registered one its index with num_tokens() unchanged.
C1_DenseFirstSeenIndices ==
    LET n == num_tokens(token_id_index_dict)
    IN  /\ \A i1, i2 \in DOMAIN token_id_index_dict :
               token_id_index_dict[i1] = token_id_index_dict[i2] => i1 = i2
        /\ Range(token_id_index_dict) = 0..(n - 1)
        /\ DOMAIN token_index_id_dict = 0..(n - 1)
        /\ \A i \in DOMAIN token_id_index_dict :
               token_index_id_dict[token_id_index_dict[i]] = i
        /\ call.op = "get_or_create_token_index" =>
               /\ call.raised = "none"
               /\ IF call.arg \in DOMAIN call.pre_id_index
                  THEN /\ call.ret = call.pre_id_index[call.arg]
                       /\ n = num_tokens(call.pre_id_index)
                  ELSE /\ call.ret = num_tokens(call.pre_id_index)
                       /\ n = num_tokens(call.pre_id_index) + 1
                       /\ token_id_index_dict[call.arg] = call.ret

\* a second identifier was just registered by get_or_create_token_index
C1_Witness ==
    /\ call.op = "get_or_create_token_index"
    /\ call.arg \notin DOMAIN call.pre_id_index
    /\ num_tokens(call.pre_id_index) >= 1

\* C8: get_token_index and tokenize_to_indices(create_token_index=False)
\* leave both maps as they were, raise KeyError exactly when an identifier
\* (of the tokenization) is not registered, and otherwise return the
\* indices in tokenization order, duplicates kept.
C8_LookupsRegisterNothing ==
    /\ call.op = "get_token_index" =>
           /\ token_id_index_dict = call.pre_id_index
           /\ token_index_id_dict = call.pre_index_id
           /\ (call.raised = "KeyError") <=> (call.arg \notin DOMAIN call.pre_id_index)
           /\ call.raised \in {"none", "KeyError"}
           /\ call.raised = "none" => call.ret = call.pre_id_index[call.arg]
    /\ (call.op = "tokenize_to_indices" /\ ~call.create) =>
           LET token_ids == tokenize(tokenizer, call.arg)
           IN  /\ token_id_index_dict = call.pre_id_index
               /\ token_index_id_dict = call.pre_index_id
               /\ (call.raised = "KeyError") <=>
                      (\E k \in 1..Len(token_ids) : token_ids[k] \notin DOMAIN call.pre_id_index)
               /\ call.raised \in {"none", "KeyError"}
               /\ call.raised = "none" =>
                      /\ Len(call.ret) = Len(token_ids)
                      /\ \A k \in 1..Len(token_ids) :
                             call.ret[k] = call.pre_id_index[token_ids[k]]

\* a non-creating tokenize_to_indices returned the same index twice, after
\* another identifier had been registered too
C8_Witness ==
    /\ call.op = "tokenize_to_indices"
    /\ ~call.create
    /\ call.raised = "none"
    /\ Len(call.ret) = 2
    /\ call.ret[1] = call.ret[2]
    /\ num_tokens(token_id_index_dict) >= 2

(***************************************************************************)
(* Properties of the construction (under Spec).                            *)
(***************************************************************************)
\* the edges an adjedges.txt line is to add under the filter: none when its
\* first id is no NODE, else one of weight 1.0 from the first id to each
\* other id that is a NODE, in the line's order; with but_self, not to the
\* first id itself
AdjEdgesOf(line, but_self) ==
    IF ~has_node_id(nodes, line[1])
    THEN <<>>
    ELSE LET Keep(nb) == has_node_id(nodes, nb) /\ (but_self => nb /= line[1])
             kept == SelectSeq(Tail(line), Keep)
         IN  [k \in 1..Len(kept) |-> <<nodes[line[1]], nodes[kept[k]], UnitWeight>>]

\* C2 as amended: under the filter an adjedges.txt line whose first id is no
\* NODE adds no edge and no node; otherwise every other id that is no NODE
\* is skipped alone, and every other id that is a NODE and is not the first
\* id again gets the edge (node0, neighbour, 1.0); no node is created.
C2_AdjedgesFilterButSelf ==
    [][(pc = "structure" /\ data_format = "adjedges" /\ ignore_featureless_node) =>
          \A line \in AdjLines :
              (/\ Len(line) > 0
               /\ last'.nfields = Len(line)
               /\ ReadAdjedgesLine(line)) =>
                  /\ nodes' = nodes
                  /\ edges' = edges \o AdjEdgesOf(line, TRUE)
                  /\ pc' = pc]_vars

\* C2 as stated: every other id that is a NODE gets an edge
C2_AdjedgesFilterAsStated ==
    [][(pc = "structure" /\ data_format = "adjedges" /\ ignore_featureless_node) =>
          \A line \in AdjLines :
              (/\ Len(line) > 0
               /\ last'.nfields = Len(line)
               /\ ReadAdjedgesLine(line)) =>
                  /\ nodes' = nodes
                  /\ edges' = edges \o AdjEdgesOf(line, FALSE)
                  /\ pc' = pc]_vars

\* a line of three distinct ids, the first a NODE, one of the others not:
\* the line added exactly one edge
C2_Witness ==
    /\ last.file = "adjedges"
    /\ ignore_featureless_node
    /\ last.nfields = 3
    /\ last.known0
    /\ last.unknown = 1
    /\ ~last.self
    /\ Len(edges) = last.pre_edges + 1
    /\ num_nodes(nodes) = last.pre_nodes

\* C3: no edge passed to add_edges has two equal endpoints, in either format.
C3_NoSelfLoops ==
    \A k \in 1..Len(edges) : edges[k][1] /= edges[k][2]

\* an adjedges.txt line of three known ids that names its first id again
\* added one edge only
C3_Witness ==
    /\ last.file = "adjedges"
    /\ last.nfields = 3
    /\ last.known0
    /\ last.unknown = 0
    /\ last.self
    /\ Len(edges) = last.pre_edges + 1

\* C4 as stated: a labels.txt or structure line whose first id is no NODE
\* creates the node when the constructor was given
\* ignore_featureless_node=False (and the label pass labels it, without
\* failing), and creates none when it was given True.
C4_ArgumentIsTheFilter ==
    /\ (last.file = "labels" /\ last.nfields = 2 /\ ~last.known0) =>
           IF ignore_featureless_node_arg
           THEN num_nodes(nodes) = last.pre_nodes
           ELSE /\ pc /= "error"
                /\ num_nodes(nodes) = last.pre_nodes + 1
                /\ has_node_attr(label, last.pre_nodes)
    /\ (/\ last.file \in {"adjedges", "edgelist"}
        /\ last.nfields = 2
        /\ ~last.known0) =>
           IF ignore_featureless_node_arg
           THEN num_nodes(nodes) = last.pre_nodes
           ELSE num_nodes(nodes) > last.pre_nodes

\* C5 as stated: a docs.txt line of fewer than 2 fields, a labels.txt line of
\* other than 2 fields, an edgelist.txt line of neither 2 nor 3 fields or
\* with a third field that is no float ends the constructor in an error.
C5_MalformedLineAborts ==
    LET malformed ==
            \/ last.file = "docs" /\ last.nfields < 2
            \/ last.file = "labels" /\ last.nfields /= 2
            \/ last.file = "edgelist" /\ last.nfields \notin {2, 3}
            \/ last.file = "edgelist" /\ last.nfields = 3 /\ float(last.third).raised /= "none"
    IN  malformed => (pc = "error" /\ raised /= "none")

\* how often x occurs in a sequence
Count(seq, x) == Cardinality({k \in 1..Len(seq) : seq[k] = x})

\* the number of distinct elements of a sequence before the first x
FirstSeenRank(seq, x) ==
    LET first == CHOOSE j \in 1..Len(seq) :
                     seq[j] = x /\ \A i \in 1..(j - 1) : seq[i] /= x
    IN  Cardinality({seq[i] : i \in 1..(first - 1)})

FeatureMatrixAsClaimed ==
    ret.op = "feature_matrix" =>
        IF ret.bag_of_words
        THEN LET shape == <<num_nodes(nodes), num_tokens(token_id_index_dict)>>
             IN  /\ ret.out.raised = "none"
                 /\ ret.out.matrix.shape = shape
                 /\ DOMAIN ret.out.matrix.cells = Cells(shape)
                 /\ \A rc \in Cells(shape) :
                        ret.out.matrix.cells[rc] = Count(features[rc[1]], rc[2])
        ELSE ret.out.raised = "NotImplementedError"

\* C6: feature_matrix(bag_of_words=True) is num_nodes x num_tokens and its
\* cell (n, t) is the number of occurrences of t in n's features;
\* bag_of_words=False raises NotImplementedError; the call changes nothing
\* of the dataset or the tokenizer.
C6_FeatureMatrixCounts ==
    [][(pc = "ready" /\ ret' /= ret /\ ret'.op = "feature_matrix") =>
          /\ FeatureMatrixAsClaimed'
          /\ UNCHANGED <<tokVars, graphVars, ignore_featureless_node, data_format, pc>>]_vars

\* a 2 x 2 feature matrix with a cell of 3 and a cell of 0
C6_Witness ==
    /\ ret.op = "feature_matrix"
    /\ ret.bag_of_words
    /\ ret.out.raised = "none"
    /\ ret.out.matrix.shape = <<2, 2>>
    /\ \E rc \in Cells(<<2, 2>>) : ret.out.matrix.cells[rc] = 3
    /\ \E rc \in Cells(<<2, 2>>) : ret.out.matrix.cells[rc] = 0

\* the label ids of the labels.txt lines read, in order
LabelIdsRead == [k \in 1..Len(labels_read) |-> labels_read[k][2]]

\* the node id of a NODE index
NodeIdOf(n) == CHOOSE id \in DOMAIN nodes : nodes[id] = n

\* some labels.txt line read names the node
Labelled(n) == \E k \in 1..Len(labels_read) : labels_read[k][1] = NodeIdOf(n)

\* the label id of the last labels.txt line read that names the node
LastLabelOf(n) ==
    LET ks == {k \in 1..Len(labels_read) : labels_read[k][1] = NodeIdOf(n)}
        k == CHOOSE k \in ks : \A j \in ks : j <= k
    IN  labels_read[k][2]

\* C7: label_list_or_matrix(one_hot=True) raises KeyError exactly when some
\* NODE index has no label; otherwise it is a num_nodes x num_classes 0/1
\* matrix whose row n has its only 1 in the column of the LABEL index last
\* attached to n; num_classes is the number of distinct label ids read.
C7_OneHotLabels ==
    (ret.op = "label_list_or_matrix" /\ ret.one_hot) =>
        LET n == num_nodes(nodes)
            shape == <<n, num_classes(DS)>>
        IN  /\ num_classes(DS) = Cardinality(Range(LabelIdsRead))
            /\ ret.out.raised \in {"none", "KeyError"}
            /\ (ret.out.raised = "KeyError") <=> (\E i \in 0..(n - 1) : ~Labelled(i))
            /\ ret.out.raised = "none" =>
                   /\ ret.out.matrix.shape = shape
                   /\ DOMAIN ret.out.matrix.cells = Cells(shape)
                   /\ \A rc \in Cells(shape) :
                          ret.out.matrix.cells[rc] =
                              IF rc[2] = FirstSeenRank(LabelIdsRead, LastLabelOf(rc[1]))
                              THEN 1 ELSE 0

\* two nodes with two labels: the 2 x 2 identity
C7_Witness ==
    /\ ret.op = "label_list_or_matrix"
    /\ ret.one_hot
    /\ ret.out.raised = "none"
    /\ ret.out.matrix.shape = <<2, 2>>
    /\ ret.out.matrix.cells[<<0, 0>>] = 1
    /\ ret.out.matrix.cells[<<1, 1>>] = 1

\* C9: an edge added from a three-field edgelist.txt line has that line's
\* parsed third field as weight; an edge added from a two-field line has
\* the parsed third field of the last three-field line read before it,
\* whether or not that line added an edge; a two-field line that is to add
\* an edge with no three-field line before it ends the constructor in an
\* UnboundLocalError and adds no edge.
C9_EdgelistWeightCarriedOver ==
    last.file = "edgelist" =>
        /\ (Len(edges) > last.pre_edges /\ last.nfields = 3) =>
               /\ Len(edges) = last.pre_edges + 1
               /\ float(last.third).raised = "none"
               /\ edges[Len(edges)][3] = float(last.third).ret
        /\ (Len(edges) > last.pre_edges /\ last.nfields = 2) =>
               /\ Len(edges) = last.pre_edges + 1
               /\ third_read /= ""
               /\ float(third_read).raised = "none"
               /\ edges[Len(edges)][3] = float(third_read).ret
        /\ (/\ last.nfields = 2
            /\ last.known0
            /\ last.unknown = 0
            /\ ~last.self
            /\ third_read = "") =>
               /\ pc = "error"
               /\ raised = "UnboundLocalError"
               /\ Len(edges) = last.pre_edges

\* the first edge of the dataset comes from a two-field line: the
\* three-field line before it added none
C9_Witness ==
    /\ last.file = "edgelist"
    /\ last.nfields = 2
    /\ last.pre_edges = 0
    /\ Len(edges) = 1
    /\ third_read /= ""

====
